---------------------------- MODULE Spec2Model ----------------------------
(***************************************************************************)
(* SnowGPT (ai_sql_assistant_v2): the Streamlit script app.py, the agent   *)
(* orchestration run_routing_agent / run_sql_query_agents and the          *)
(* warehouse wrapper SnowflakeHandler.                                     *)
(*                                                                         *)
(* Two specifications share the definitions below.                         *)
(*   Spec        the web application: every browser session runs app.py in *)
(*               its own script thread of one server process; the handlers *)
(*               routing_agent.snowflake_db and sql_query_agents.          *)
(*               snowflake_db are module-level objects shared by all       *)
(*               sessions.  FairSpec adds that every agent call returns.   *)
(*   HandlerSpec one SnowflakeHandler driven through its public methods    *)
(*               (as the __main__ block of snowflake_utils.py does).       *)
(*                                                                         *)
(* Python values: None is the empty tuple, an object x is <<x>>; a key of  *)
(* st.session_state is <<>> when absent and <<v>> when present.  Text is a *)
(* sequence of parts, each carrying the ids of the user inputs it was      *)
(* built from.  The SQL editor of the side bar (app.py 434-494) is not     *)
(* part of the chat request and is not modelled.                           *)
(***************************************************************************)
EXTENDS Integers, Sequences, FiniteSets, TLC

\* ------------------------------------------------------------- bounds
\* user inputs typed per browser session
MaxInputs == 2
\* longest table / query-spec list handed to a list method
MaxList == 2

\* ---------------------------------------------------------- constants
\* sql_query_agents.py 236
max_retries == 3

Sessions == {1, 2}
\* (database, schema) pairs the two select boxes can show
Selections == {<<"DB1", "S1">>, <<"DB1", "S2">>, <<"DB2", "S1">>}
Queries == {"q1", "q2"}

None == <<>>
Some(x) == <<x>>
Absent == <<>>
Present(v) == <<v>>

\* ------------------------------------------------- SnowflakeHandler
\* snowflake.connector.connect(...): a new connection object
NewConnection(who, database, schema) ==
    [by |-> who, database |-> database, schema |-> schema, closes |-> 0]

SnowflakeHandler(database, schema) ==
    [database |-> database, schema |-> schema, connection |-> None]

NotEstablished == "Connection not established. Call connect() first."

Part(t, i) == [t |-> t, i |-> i]
Stmt(kind, arg) == [kind |-> kind, arg |-> arg]

\* what a method call did: the exception it raised ("" for none), the value
\* it returned, the cursors it opened and closed, the statements it sent
Raised(msg) ==
    [raised |-> msg, value |-> <<>>, cursors |-> 0, cursors_closed |-> 0,
     sent |-> <<>>]
Returned(value, cursors, sent) ==
    [raised |-> "", value |-> value, cursors |-> cursors,
     cursors_closed |-> cursors, sent |-> sent]

connect_forgets_on_failure(h, who, ok) ==
    IF ok
    THEN [h |-> [h EXCEPT !.connection =
                    Some(NewConnection(who, h.database, h.schema))],
          raised |-> ""]
    ELSE [h |-> [h EXCEPT !.connection = None], raised |-> "connect failed"]

connect(h, who, ok) ==
    IF ok
    THEN [h |-> [h EXCEPT !.connection =
                    Some(NewConnection(who, h.database, h.schema))],
          raised |-> ""]
    ELSE [h |-> h, raised |-> "connect failed"]

close_connection_keeps_reference(h) ==
    IF h.connection # None
    THEN [h |-> [h EXCEPT !.connection[1].closes = @ + 1],
          closed |-> Some([h.connection[1] EXCEPT !.closes = @ + 1])]
    ELSE [h |-> h, closed |-> None]

close_connection(h) ==
    IF h.connection # None
    THEN [h |-> [h EXCEPT !.connection = None],
          closed |-> Some([h.connection[1] EXCEPT !.closes = @ + 1])]
    ELSE [h |-> h, closed |-> None]

\* cursor = connection.cursor(); try: execute, fetch; except: return an
\* error string; finally: cursor.close()
OneQuery(stmt, ok, good, bad) ==
    Returned(IF ok THEN <<Part(good, 0)>> ELSE <<Part(bad, 0)>>, 1, <<stmt>>)

get_databases(h, ok) ==
    IF h.connection = None THEN Raised(NotEstablished)
    ELSE OneQuery(Stmt("SELECT DATABASES", h.database), ok,
                  "rows", "Query is invalid")

get_schemas(h, ok) ==
    IF h.connection = None THEN Raised(NotEstablished)
    ELSE OneQuery(Stmt("SELECT SCHEMATA", h.database), ok,
                  "rows", "Query is invalid")

get_tables_unchecked(h, ok) ==
    IF h.connection = None THEN Raised("AttributeError")
    ELSE OneQuery(Stmt("SELECT TABLES", h.schema), ok,
                  "markdown", "Query is invalid")

get_tables(h, ok) ==
    IF h.connection = None THEN Raised(NotEstablished)
    ELSE OneQuery(Stmt("SELECT TABLES", h.schema), ok,
                  "markdown", "Query is invalid")

get_all_columns(h, ok) ==
    IF h.connection = None THEN Raised(NotEstablished)
    ELSE OneQuery(Stmt("SELECT COLUMNS", h.schema), ok,
                  "markdown", "Query is invalid")

get_table_columns(h, table, ok) ==
    IF h.connection = None THEN Raised(NotEstablished)
    ELSE OneQuery(Stmt("SELECT COLUMNS OF", table), ok,
                  "markdown", "Query is invalid")

execute_query_df_reraises(h, query, ok) ==
    IF h.connection = None THEN Raised(NotEstablished)
    ELSE IF ok THEN OneQuery(Stmt("RUN", query), ok,
                             "DataFrame", "Query execution failed")
         ELSE [Raised("ProgrammingError") EXCEPT
                  !.cursors = 1, !.cursors_closed = 1,
                  !.sent = <<Stmt("RUN", query)>>]

execute_query_df(h, query, ok) ==
    IF h.connection = None THEN Raised(NotEstablished)
    ELSE OneQuery(Stmt("RUN", query), ok,
                  "DataFrame", "Query execution failed")

execute_query_md(h, query, ok) ==
    IF h.connection = None THEN Raised(NotEstablished)
    ELSE OneQuery(Stmt("RUN", query), ok,
                  "markdown", "Query execution failed")

execute_query_sample_md(h, query, ok) ==
    IF h.connection = None THEN Raised(NotEstablished)
    ELSE OneQuery(Stmt("RUN", query), ok,
                  "markdown", "Query execution failed")

get_distinct_values_dict(h, field, table, ok) ==
    IF h.connection = None THEN Raised(NotEstablished)
    ELSE OneQuery(Stmt("SELECT DISTINCT", table), ok,
                  "markdown", "Query execution failed")

validate_query_runs_the_query(h, query, ok) ==
    IF h.connection = None THEN Raised(NotEstablished)
    ELSE OneQuery(Stmt("RUN", query), ok,
                  "Query is valid.", "Query is invalid")

validate_query(h, query, ok) ==
    IF h.connection = None THEN Raised(NotEstablished)
    ELSE OneQuery(Stmt("EXPLAIN", query), ok,
                  "Query is valid.", "Query is invalid")

\* index of the first query of oks[1..n] that fails, 0 when none does
FirstFail(oks, n) ==
    IF \E i \in 1..n : ~oks[i]
    THEN CHOOSE i \in 1..n : ~oks[i] /\ \A j \in 1..(i - 1) : oks[j]
    ELSE 0

\* for table in table_list: one cursor and one query per table; the first
\* failing query returns the error string in place of the whole output
get_table_list_columns(h, table_list, oks) ==
    IF h.connection = None THEN Raised(NotEstablished)
    ELSE LET n == Len(table_list)
             f == FirstFail(oks, n)
             sent(k) == [i \in 1..k |-> Stmt("SELECT COLUMNS OF", table_list[i])]
         IN  IF f = 0
             THEN Returned(<<Part("# Table definitions", 0)>>
                             \o [i \in 1..n |-> Part("## columns", i)],
                           n, sent(n))
             ELSE Returned(<<Part("Query is invalid", 0)>>, f, sent(f))

get_tables_sample_md(h, table_list, oks) ==
    IF h.connection = None THEN Raised(NotEstablished)
    ELSE LET n == Len(table_list)
             f == FirstFail(oks, n)
             sent(k) == [i \in 1..k |-> Stmt("SELECT SAMPLE", table_list[i])]
         IN  IF f = 0
             THEN Returned(<<Part("# Tables samples", 0)>>
                             \o [i \in 1..n |-> Part("## sample", i)],
                           n, sent(n))
             ELSE Returned(<<Part("Query is invalid", 0)>>, f, sent(f))

\* two queries per table: its definition (oks[2i-1]), then its sample (oks[2i])
get_tables_info_md(h, table_list, oks) ==
    IF h.connection = None THEN Raised(NotEstablished)
    ELSE LET n == Len(table_list)
             f == FirstFail(oks, 2 * n)
             sent(k) == [j \in 1..k |->
                           IF j % 2 = 1
                           THEN Stmt("SELECT COLUMNS OF", table_list[(j + 1) \div 2])
                           ELSE Stmt("SELECT SAMPLE", table_list[j \div 2])]
             parts == [j \in 1..(3 * n) |->
                           CASE j % 3 = 1 -> Part("## table", (j + 2) \div 3)
                             [] j % 3 = 2 -> Part("### Definition", (j + 1) \div 3)
                             [] OTHER -> Part("### Sample", j \div 3)]
         IN  IF f = 0
             THEN Returned(<<Part("# Tables information", 0)>> \o parts,
                           2 * n, sent(2 * n))
             ELSE Returned(<<Part("Query is invalid", 0)>>, f, sent(f))

get_distinct_values_stops_at_failure(h, queries, oks) ==
    IF h.connection = None THEN Raised(NotEstablished)
    ELSE LET n == Len(queries)
             f == FirstFail(oks, n)
             k == IF f = 0 THEN n ELSE f
             parts == [j \in 1..(2 * k) |->
                           IF j % 2 = 1
                           THEN Part("## header", (j + 1) \div 2)
                           ELSE IF oks[j \div 2]
                                THEN Part("result", j \div 2)
                                ELSE Part("Query failed", j \div 2)]
         IN  Returned(<<Part("# Distinct Values Results", 0)>> \o parts, k,
                      [i \in 1..k |-> Stmt("SELECT DISTINCT", queries[i].table)])

\* for i, query_spec in enumerate(queries, start=1): a numbered header, then
\* the result or, when the query fails, a failure note; the loop goes on
get_distinct_values_from_table_list_dict(h, queries, oks) ==
    IF h.connection = None THEN Raised(NotEstablished)
    ELSE LET n == Len(queries)
             parts == [j \in 1..(2 * n) |->
                           IF j % 2 = 1
                           THEN Part("## header", (j + 1) \div 2)
                           ELSE IF oks[j \div 2]
                                THEN Part("result", j \div 2)
                                ELSE Part("Query failed", j \div 2)]
         IN  Returned(<<Part("# Distinct Values Results", 0)>> \o parts, n,
                      [i \in 1..n |-> Stmt("SELECT DISTINCT", queries[i].table)])

\* the table lists T1..Tn and the outcome of each statement of a call
TableLists == {[i \in 1..n |-> <<"T1", "T2", "T3", "T4">>[i]] : n \in 0..MaxList}
OkLists(n) == [1..n -> BOOLEAN]
QuerySpec(t) == [field |-> "F", table |-> t, filter |-> ""]

QueryMethods ==
    {"get_databases", "get_schemas", "get_tables", "get_all_columns",
     "get_table_columns", "execute_query_df", "execute_query_md",
     "get_distinct_values_dict", "execute_query_sample_md", "validate_query"}
ListMethods ==
    {"get_table_list_columns", "get_tables_sample_md", "get_tables_info_md",
     "get_distinct_values_from_table_list_dict"}

\* statements method m sends for a list of n tables when none fails
NStatements(m, n) == IF m = "get_tables_info_md" THEN 2 * n ELSE n

\* m(q) on handler h, the warehouse answering ok or not
CallQueryMethod(h, m, q, ok) ==
    CASE m = "get_databases" -> get_databases(h, ok)
      [] m = "get_schemas" -> get_schemas(h, ok)
      [] m = "get_tables" -> get_tables(h, ok)
      [] m = "get_all_columns" -> get_all_columns(h, ok)
      [] m = "get_table_columns" -> get_table_columns(h, "T1", ok)
      [] m = "execute_query_df" -> execute_query_df(h, q, ok)
      [] m = "execute_query_md" -> execute_query_md(h, q, ok)
      [] m = "get_distinct_values_dict" ->
             get_distinct_values_dict(h, "F", "T1", ok)
      [] m = "execute_query_sample_md" -> execute_query_sample_md(h, q, ok)
      [] OTHER -> validate_query(h, q, ok)

\* m(tl) on handler h, the warehouse answering statement j as oks[j]
CallListMethod(h, m, tl, oks) ==
    CASE m = "get_table_list_columns" -> get_table_list_columns(h, tl, oks)
      [] m = "get_tables_sample_md" -> get_tables_sample_md(h, tl, oks)
      [] m = "get_tables_info_md" -> get_tables_info_md(h, tl, oks)
      [] OTHER -> get_distinct_values_from_table_list_dict(
                      h, [i \in 1..Len(tl) |-> QuerySpec(tl[i])], oks)

\* ---------------------------------------------------------------- state
VARIABLES
    routing_db,   \* routing_agent.snowflake_db (module level, shared)
    query_db,     \* sql_query_agents.snowflake_db (module level, shared)
    pc,           \* pc[s]: where session s's script thread is
    ss,           \* ss[s]: st.session_state of session s
    run,          \* run[s]: the variables of the current run of app.py
    call,         \* call[s]: the variables of run_sql_query_agents
    obs,          \* obs[s]: what the run of session s has done and seen
    handler,      \* HandlerSpec: the handler under test
    last,         \* HandlerSpec: the latest call on it
    prev          \* HandlerSpec: the operation called before that

vars == <<routing_db, query_db, pc, ss, run, call, obs, handler, last, prev>>
appvars == <<routing_db, query_db, pc, ss, run, call, obs>>

\* ------------------------------------------------------- HandlerSpec
NoCall ==
    [op |-> "none", before |-> SnowflakeHandler("None", "None"),
     after |-> SnowflakeHandler("None", "None"), raised |-> "",
     value |-> <<>>, cursors |-> 0, cursors_closed |-> 0, sent |-> <<>>,
     closed |-> None, arg |-> "", oks |-> <<>>]

HConnect(ok) ==
    LET r == connect(handler, "main", ok)
    IN  /\ handler' = r.h
        /\ last' = [NoCall EXCEPT !.op = "connect", !.before = handler,
                                  !.after = r.h, !.raised = r.raised,
                                  !.oks = <<ok>>]
        /\ prev' = last.op
        /\ UNCHANGED appvars

HClose ==
    LET r == close_connection(handler)
    IN  /\ handler' = r.h
        /\ last' = [NoCall EXCEPT !.op = "close_connection",
                                  !.before = handler, !.after = r.h,
                                  !.closed = r.closed]
        /\ prev' = last.op
        /\ UNCHANGED appvars

\* callers assign the public attributes database and schema
HSetContext(sel) ==
    /\ handler' = [handler EXCEPT !.database = sel[1], !.schema = sel[2]]
    /\ last' = [NoCall EXCEPT !.op = "set_context", !.before = handler,
                              !.after = handler']
    /\ prev' = last.op
    /\ UNCHANGED appvars

HCallQuery(m, q, ok) ==
    LET r == CallQueryMethod(handler, m, q, ok)
    IN  /\ handler' = handler
        /\ last' = [NoCall EXCEPT !.op = m, !.before = handler,
                                  !.after = handler, !.raised = r.raised,
                                  !.value = r.value, !.cursors = r.cursors,
                                  !.cursors_closed = r.cursors_closed,
                                  !.sent = r.sent, !.arg = q, !.oks = <<ok>>]
        /\ prev' = last.op
        /\ UNCHANGED appvars

HCallList(m, tl, oks) ==
    LET r == CallListMethod(handler, m, tl, oks)
    IN  /\ handler' = handler
        /\ last' = [NoCall EXCEPT !.op = m, !.before = handler,
                                  !.after = handler, !.raised = r.raised,
                                  !.value = r.value, !.cursors = r.cursors,
                                  !.cursors_closed = r.cursors_closed,
                                  !.sent = r.sent, !.oks = oks]
        /\ prev' = last.op
        /\ UNCHANGED appvars

AppIdle ==
    /\ routing_db = SnowflakeHandler("None", "None")
    /\ query_db = SnowflakeHandler("None", "None")
    /\ pc = [s \in Sessions |-> "idle"]
    /\ ss = [s \in Sessions |-> <<>>]
    /\ run = [s \in Sessions |-> <<>>]
    /\ call = [s \in Sessions |-> <<>>]
    /\ obs = [s \in Sessions |-> <<>>]

HandlerInit ==
    /\ handler \in {SnowflakeHandler(sel[1], sel[2]) : sel \in Selections}
    /\ last = NoCall
    /\ prev = "none"
    /\ AppIdle

HandlerNext ==
    \/ \E ok \in BOOLEAN : HConnect(ok)
    \/ HClose
    \/ \E sel \in Selections : HSetContext(sel)
    \/ \E m \in QueryMethods, q \in Queries, ok \in BOOLEAN :
          HCallQuery(m, q, ok)
    \/ \E m \in ListMethods, tl \in TableLists :
          \E oks \in OkLists(NStatements(m, Len(tl))) : HCallList(m, tl, oks)

HandlerSpec == HandlerInit /\ [][HandlerNext]_vars

\* ------------------------------------------------------------ app.py
\* a piece of text and the user inputs (numbered per session) it derives from
Text(role, ids) == <<[role |-> role, ids |-> ids]>>
Taint(text) == UNION {text[i].ids : i \in DOMAIN text}

NewSessionState ==
    [messages |-> Absent, router_counter |-> Absent, handoff |-> Absent,
     routing |-> Absent, user_input_history |-> Absent,
     current_db |-> Absent, current_schema |-> Absent]

\* RoutingOutput
RoutingOutput(handoff, questions_for_users, user_request) ==
    [handoff |-> handoff, questions_for_users |-> questions_for_users,
     user_request |-> user_request]
NoRouting == RoutingOutput("None", <<>>, <<>>)

NoRun ==
    [selected_db |-> "None", selected_schema |-> "None",
     force_validator_agent |-> FALSE, has_input |-> FALSE,
     user_input |-> <<>>, snowflake_db |-> SnowflakeHandler("None", "None"),
     routing |-> NoRouting, sql_query |-> "", verdict |-> FALSE]

\* SQLQueryOutput, SQLValidationOutput and the locals of run_sql_query_agents
NoFrame ==
    [user_input |-> <<>>,
     sql_builder |-> [sql_query |-> "", validation_result |-> FALSE],
     sql_validation |-> None, retry_count |-> 0]

NoTool == [called |-> FALSE, raised |-> "", foreign |-> FALSE, repointed |-> FALSE]

NewObs ==
    [typed |-> 0, answered_upto |-> 0, answered |-> FALSE,
     ctx_changed |-> FALSE, steps |-> <<>>, agent_input |-> <<>>,
     builder_runs |-> 0, validator_runs |-> 0,
     first_validation_result |-> FALSE, tool |-> NoTool,
     executed |-> <<>>]

\* the SQL text the n-th run of the builder writes
QueryName(n) == <<"Q1", "Q2", "Q3", "Q4", "Q5", "Q6">>[n]

Init ==
    /\ routing_db = SnowflakeHandler("None", "None")
    /\ query_db = SnowflakeHandler("None", "None")
    /\ pc = [s \in Sessions |-> "idle"]
    /\ ss = [s \in Sessions |-> NewSessionState]
    /\ run = [s \in Sessions |-> NoRun]
    /\ call = [s \in Sessions |-> NoFrame]
    /\ obs = [s \in Sessions |-> NewObs]
    /\ handler = SnowflakeHandler("None", "None")
    /\ last = NoCall
    /\ prev = "none"

harness == <<handler, last, prev>>

\* keys_to_clear, deleted when the database or schema changed (96-115)
ContextChanged(st, sel) ==
    \/ st.current_db # Present(sel[1])
    \/ st.current_schema # Present(sel[2])

\* 90-93: the tracking keys are created as None
TrackContext(st) ==
    [st EXCEPT !.current_db = IF @ = Absent THEN Present("None") ELSE @,
               !.current_schema = IF @ = Absent THEN Present("None") ELSE @]

ResetOnContextChange_keeps_history(st, sel) ==
    LET t == TrackContext(st)
    IN  IF ContextChanged(t, sel)
        THEN [t EXCEPT !.messages = Absent, !.router_counter = Absent,
                       !.handoff = Absent, !.routing = Absent,
                       !.current_db = Present(sel[1]),
                       !.current_schema = Present(sel[2])]
        ELSE t

ResetOnContextChange(st, sel) ==
    LET t == TrackContext(st)
    IN  IF ContextChanged(t, sel)
        THEN [t EXCEPT !.messages = Absent, !.router_counter = Absent,
                       !.handoff = Absent, !.routing = Absent,
                       !.user_input_history = Absent,
                       !.current_db = Present(sel[1]),
                       !.current_schema = Present(sel[2])]
        ELSE t

\* 129-130 and 216-223: keys that are missing get their first value
InitSessionState(st) ==
    [st EXCEPT !.messages = IF @ = Absent THEN Present(<<>>) ELSE @,
               !.router_counter = IF @ = Absent THEN Present(0) ELSE @,
               !.handoff = IF @ = Absent THEN Present("user") ELSE @,
               !.routing = IF @ = Absent THEN Present(NoRouting) ELSE @,
               !.user_input_history = IF @ = Absent THEN Present(<<>>) ELSE @]

\* app.py 57-223, one run of the script up to "React to user input".  The
\* run is started by a widget (sel, force) and, when inp, carries a chat
\* input.  connect() at 124 may raise (ok = FALSE): the run ends there.  A
\* failure of the first connect() at 66 ends the run with nothing changed.
RunScript(s, sel, force, inp, ok) ==
    /\ pc[s] = "idle"
    /\ inp => obs[s].typed < MaxInputs
    /\ LET h0 == connect(SnowflakeHandler("SNOWFLAKE", "None"), s, TRUE).h
           h1 == close_connection([h0 EXCEPT !.database = sel[1]]).h
           st1 == ResetOnContextChange(ss[s], sel)
           h2 == connect([h1 EXCEPT !.database = sel[1], !.schema = sel[2]],
                         s, ok)
           o == [obs[s] EXCEPT !.ctx_changed =
                                   ContextChanged(TrackContext(ss[s]), sel),
                               !.answered = FALSE, !.steps = <<>>,
                               !.agent_input = <<>>, !.builder_runs = 0,
                               !.validator_runs = 0,
                               !.first_validation_result = FALSE,
                               !.tool = NoTool, !.executed = <<>>]
       IN  IF h2.raised # ""
           THEN /\ ss' = [ss EXCEPT ![s] = st1]
                /\ obs' = [obs EXCEPT ![s] =
                             [o EXCEPT !.typed = IF inp THEN @ + 1 ELSE @]]
                /\ UNCHANGED <<pc, run>>
           ELSE /\ ss' = [ss EXCEPT ![s] = InitSessionState(st1)]
                /\ run' = [run EXCEPT ![s] =
                             [NoRun EXCEPT !.selected_db = sel[1],
                                           !.selected_schema = sel[2],
                                           !.force_validator_agent = force,
                                           !.has_input = inp,
                                           !.snowflake_db = h2.h]]
                /\ obs' = [obs EXCEPT ![s] = o]
                /\ pc' = [pc EXCEPT ![s] = "at_input"]
    /\ UNCHANGED <<routing_db, query_db, call, harness>>

\* an uncaught exception, or the end of the script: the run is over
EndRun(s) ==
    /\ pc' = [pc EXCEPT ![s] = "idle"]
    /\ run' = [run EXCEPT ![s] = NoRun]
    /\ call' = [call EXCEPT ![s] = NoFrame]

\* 226: no chat input in this run; the script runs to its end
NoUserInput(s) ==
    /\ pc[s] = "at_input"
    /\ ~run[s].has_input
    /\ EndRun(s)
    /\ UNCHANGED <<routing_db, query_db, ss, obs, harness>>

\* 306, 364: the branch taken for a hand-off
Branch(handoff) ==
    CASE handoff = "sql_query_agent" -> "sq_set"
      [] handoff = "dashboard_agent" -> "dashboard"
      [] OTHER -> "idle"

\* 226-304 up to the call of run_routing_agent: the input is shown and kept
\* in messages; with handoff 'user' the first input of a request goes to the
\* routing agent as typed (251-258), a later one as the joined history
\* (281-287)
HandleUserInput(s) ==
    /\ pc[s] = "at_input"
    /\ run[s].has_input
    /\ LET i == obs[s].typed + 1
           st == [ss[s] EXCEPT !.messages = Present(Append(@[1], "user"))]
           history == Append(st.user_input_history[1],
                             [role |-> "user", ids |-> {i}])
       IN  /\ obs' = [obs EXCEPT ![s].typed = i]
           /\ IF st.handoff = Present("user")
              THEN /\ ss' = [ss EXCEPT ![s] =
                        [st EXCEPT !.router_counter =
                                       IF @ = Present(0) THEN Present(1) ELSE @,
                                   !.user_input_history = Present(history)]]
                   /\ run' = [run EXCEPT ![s].user_input =
                                 IF st.router_counter = Present(0)
                                 THEN Text("typed", {i})
                                 ELSE history]
                   /\ pc' = [pc EXCEPT ![s] = "rt_set"]
              ELSE /\ ss' = [ss EXCEPT ![s] = st]
                   /\ run' = [run EXCEPT ![s].user_input = Text("typed", {i})]
                   /\ pc' = [pc EXCEPT ![s] = Branch(st.handoff[1])]
    /\ UNCHANGED <<routing_db, query_db, call, harness>>

\* ------------------------------------------ a tool call of an agent
\* what a function tool of session s finds in the module-level handler h:
\* the exception of the handler method, a connection another session
\* opened, a database or schema other than the session's selection
ToolCall(s, h, res) ==
    [called |-> TRUE, raised |-> res.raised,
     foreign |-> h.connection # None /\ h.connection[1].by # s,
     repointed |-> \/ h.database # run[s].selected_db
                   \/ h.schema # run[s].selected_schema
                   \/ /\ h.connection # None
                      /\ \/ h.connection[1].database # run[s].selected_db
                         \/ h.connection[1].schema # run[s].selected_schema]

\* -------------------------------------- routing_agent.run_routing_agent
\* 148-149
RoutingSetContext(s) ==
    /\ pc[s] = "rt_set"
    /\ routing_db' = [routing_db EXCEPT !.database = run[s].selected_db,
                                        !.schema = run[s].selected_schema]
    /\ pc' = [pc EXCEPT ![s] = "rt_connect"]
    /\ UNCHANGED <<query_db, ss, run, call, obs, harness>>

\* 151, then Runner.run(routing_agent, user_input) starts
RoutingConnect(s, ok) ==
    /\ pc[s] = "rt_connect"
    /\ LET r == connect(routing_db, s, ok)
       IN  /\ routing_db' = r.h
           /\ IF r.raised # ""
              THEN /\ EndRun(s)
                   /\ UNCHANGED obs
              ELSE /\ pc' = [pc EXCEPT ![s] = "rt_agent"]
                   /\ obs' = [obs EXCEPT
                                ![s].steps = Append(@, "routing"),
                                ![s].agent_input = run[s].user_input]
                   /\ UNCHANGED <<run, call>>
    /\ UNCHANGED <<query_db, ss, harness>>

\* the routing agent calls its tool get_database_context (30-43)
RoutingToolCall(s, ok) ==
    /\ pc[s] = "rt_agent"
    /\ obs' = [obs EXCEPT ![s].tool =
                 ToolCall(s, routing_db, get_tables(routing_db, ok))]
    /\ UNCHANGED <<routing_db, query_db, pc, ss, run, call, harness>>

\* 153: the agent's RoutingOutput
RoutingResult(s, handoff) ==
    /\ pc[s] = "rt_agent"
    /\ LET ids == Taint(run[s].user_input)
       IN  run' = [run EXCEPT ![s].routing =
                     IF handoff = "user"
                     THEN RoutingOutput(handoff, Text("questions", ids), <<>>)
                     ELSE RoutingOutput(handoff, <<>>, Text("request", ids))]
    /\ pc' = [pc EXCEPT ![s] = "rt_close"]
    /\ UNCHANGED <<routing_db, query_db, ss, call, obs, harness>>

\* 159-161, then app.py 266-303: a question goes to the user and the script
\* reruns; any other hand-off is stored and its branch taken
RoutingReturn(s) ==
    /\ pc[s] = "rt_close"
    /\ routing_db' = close_connection(routing_db).h
    /\ LET routing == run[s].routing
       IN  IF routing.handoff = "user"
           THEN /\ ss' = [ss EXCEPT
                     ![s].user_input_history =
                         Present(Append(@[1],
                            [role |-> "routing agent",
                             ids |-> Taint(routing.questions_for_users)])),
                     ![s].messages = Present(Append(@[1], "routing_agent"))]
                /\ EndRun(s)
           ELSE /\ ss' = [ss EXCEPT ![s].handoff = Present(routing.handoff),
                                    ![s].routing = Present(routing)]
                /\ pc' = [pc EXCEPT ![s] = Branch(routing.handoff)]
                /\ UNCHANGED <<run, call>>
    /\ obs' = [obs EXCEPT ![s].tool = NoTool]
    /\ UNCHANGED <<query_db, harness>>

\* ---------------------------------- sql_query_agents.run_sql_query_agents
\* 311 and 198-199
SqlSetContext(s) ==
    /\ pc[s] = "sq_set"
    /\ query_db' = [query_db EXCEPT !.database = run[s].selected_db,
                                    !.schema = run[s].selected_schema]
    /\ call' = [call EXCEPT ![s] =
                  [NoFrame EXCEPT !.user_input = ss[s].routing[1].user_request]]
    /\ pc' = [pc EXCEPT ![s] = "sq_connect"]
    /\ UNCHANGED <<routing_db, ss, run, obs, harness>>

\* 201, then Runner.run(database_sme_agent, user_input) starts (208)
SqlConnect(s, ok) ==
    /\ pc[s] = "sq_connect"
    /\ LET r == connect(query_db, s, ok)
       IN  /\ query_db' = r.h
           /\ IF r.raised # ""
              THEN /\ EndRun(s)
                   /\ UNCHANGED obs
              ELSE /\ pc' = [pc EXCEPT ![s] = "sme"]
                   /\ obs' = [obs EXCEPT
                                ![s].steps = Append(@, "sme"),
                                ![s].agent_input = call[s].user_input]
                   /\ UNCHANGED <<run, call>>
    /\ UNCHANGED <<routing_db, ss, harness>>

\* an agent of sql_query_agents calls one of its tools: get_database_context
\* and get_tables_info (SME), validate_sql_query (builder), get_tables_info
\* and validate_sql_query (validator)
SqlToolCall(s, ok) ==
    /\ \/ /\ pc[s] = "sme"
          /\ \E r \in {get_tables(query_db, ok),
                       get_tables_info_md(query_db, <<"T1">>, <<ok, ok>>)} :
               obs' = [obs EXCEPT ![s].tool = ToolCall(s, query_db, r)]
       \/ /\ pc[s] \in {"builder", "rework_builder"}
          /\ obs' = [obs EXCEPT ![s].tool =
                ToolCall(s, query_db, validate_query(query_db, "Q", ok))]
       \/ /\ pc[s] \in {"validator", "rework_validator"}
          /\ \E r \in {validate_query(query_db, "Q", ok),
                       get_tables_info_md(query_db, <<"T1">>, <<ok, ok>>)} :
               obs' = [obs EXCEPT ![s].tool = ToolCall(s, query_db, r)]
    /\ UNCHANGED <<routing_db, query_db, pc, ss, run, call, harness>>

\* 208-223: DBSMEOutput; without sufficient context the function returns an
\* empty sql_query (214-220), else the builder is run (223)
SmeResult(s, sufficient_context) ==
    /\ pc[s] = "sme"
    /\ IF ~sufficient_context
       THEN /\ run' = [run EXCEPT ![s].sql_query = "", ![s].verdict = FALSE]
            /\ pc' = [pc EXCEPT ![s] = "returned"]
            /\ obs' = [obs EXCEPT ![s].steps = Append(@, "return"),
                                  ![s].tool = NoTool]
       ELSE /\ pc' = [pc EXCEPT ![s] = "builder"]
            /\ obs' = [obs EXCEPT ![s].steps = Append(@, "builder"),
                                  ![s].builder_runs = @ + 1,
                                  ![s].tool = NoTool]
            /\ UNCHANGED run
    /\ UNCHANGED <<routing_db, query_db, ss, call, harness>>

\* 229: is the validator run on the builder's first query
ValidatorWanted_forced_only(validation_result, force_validator_agent) ==
    force_validator_agent

ValidatorWanted(validation_result, force_validator_agent) ==
    ~validation_result \/ force_validator_agent

\* 238: the condition of the rework loop
ReworkNeeded_one_more(sql_valid, retry_count) ==
    sql_valid = FALSE /\ retry_count <= max_retries

ReworkNeeded(sql_valid, retry_count) ==
    sql_valid = FALSE /\ retry_count < max_retries

\* 260
NextRetryCount_stuck(retry_count) == retry_count

NextRetryCount(retry_count) == retry_count + 1

\* a run of the validator agent begins (231, 256)
StartValidator(o) ==
    [o EXCEPT !.steps = Append(@, "validator"), !.validator_runs = @ + 1,
              !.tool = NoTool]

\* a run of the builder agent begins (223, 249)
StartBuilder(o) ==
    [o EXCEPT !.steps = Append(@, "builder"), !.builder_runs = @ + 1,
              !.tool = NoTool]

\* 223-229 and 249-256: SQLQueryOutput of the builder.  The first query is
\* validated when the builder reports it invalid or the toggle is on; a
\* reworked query always is.
BuilderResult(s, empty, validation_result) ==
    /\ pc[s] \in {"builder", "rework_builder"}
    /\ call' = [call EXCEPT ![s].sql_builder =
                  [sql_query |-> IF empty THEN ""
                                 ELSE QueryName(obs[s].builder_runs),
                   validation_result |-> validation_result]]
    /\ IF pc[s] = "builder"
       THEN LET o == [obs[s] EXCEPT
                        !.first_validation_result = validation_result]
            IN  IF ValidatorWanted(validation_result,
                                   run[s].force_validator_agent)
                THEN /\ pc' = [pc EXCEPT ![s] = "validator"]
                     /\ obs' = [obs EXCEPT ![s] = StartValidator(o)]
                ELSE /\ pc' = [pc EXCEPT ![s] = "sq_close"]
                     /\ obs' = [obs EXCEPT ![s] = [o EXCEPT !.tool = NoTool]]
       ELSE /\ pc' = [pc EXCEPT ![s] = "rework_validator"]
            /\ obs' = [obs EXCEPT ![s] = StartValidator(obs[s])]
    /\ UNCHANGED <<routing_db, query_db, ss, run, harness>>

\* 231-260: SQLValidationOutput of the validator; retry_count is 0 after the
\* first validation (237) and is incremented at the end of every rework
\* iteration (260); then the loop condition (238) is tested
ValidatorResult(s, sql_valid) ==
    /\ pc[s] \in {"validator", "rework_validator"}
    /\ LET retry_count == IF pc[s] = "validator" THEN 0
                          ELSE NextRetryCount(call[s].retry_count)
       IN  /\ call' = [call EXCEPT
                         ![s].sql_validation = Some([sql_valid |-> sql_valid]),
                         ![s].retry_count = retry_count]
           /\ IF ReworkNeeded(sql_valid, retry_count)
              THEN /\ pc' = [pc EXCEPT ![s] = "rework_builder"]
                   /\ obs' = [obs EXCEPT ![s] = StartBuilder(obs[s])]
              ELSE /\ pc' = [pc EXCEPT ![s] = "sq_close"]
                   /\ obs' = [obs EXCEPT ![s].tool = NoTool]
    /\ UNCHANGED <<routing_db, query_db, ss, run, harness>>

\* the last verdict given on the builder's query: the validator's when it
\* was run, else the builder's own
LastVerdict(frame) ==
    IF frame.sql_validation # None
    THEN frame.sql_validation[1].sql_valid
    ELSE frame.sql_builder.validation_result

\* 262-271: the response takes the builder's latest query, the connection
\* is closed and the function returns
SqlReturn(s) ==
    /\ pc[s] = "sq_close"
    /\ query_db' = close_connection(query_db).h
    /\ run' = [run EXCEPT ![s].sql_query = call[s].sql_builder.sql_query,
                          ![s].verdict = LastVerdict(call[s])]
    /\ pc' = [pc EXCEPT ![s] = "returned"]
    /\ obs' = [obs EXCEPT ![s].steps = Append(@, "return")]
    /\ UNCHANGED <<routing_db, ss, call, harness>>

\* ------------------------------------- app.py, after the agents returned
\* 359-362 (and 420-423): the request is over
ResetAfterAnswer_keeps_routing(st) ==
    [st EXCEPT !.router_counter = Absent,
               !.user_input_history = Absent]

ResetAfterAnswer(st) ==
    [st EXCEPT !.router_counter = Absent, !.handoff = Present("user"),
               !.routing = Absent, !.user_input_history = Absent]

\* 351-362: the answer is kept in messages and the request state deleted
Answer(s) ==
    /\ ss' = [ss EXCEPT ![s] =
                ResetAfterAnswer(
                    [ss[s] EXCEPT !.messages =
                                     Present(Append(@[1], "sql_query_agent"))])]
    /\ EndRun(s)

Answered(o) ==
    [o EXCEPT !.answered = TRUE, !.answered_upto = o.typed,
              !.agent_input = <<>>]

\* 314-337: with an empty sql_query nothing is executed (326-327); else the
\* query runs on the script's own handler (330).  A failing query makes
\* execute_query_df return an error string, on which
\* convert_decimals_to_float (st_utils.py 23) raises: the run ends with the
\* request state as it is.
ExecuteQuery(s, ok) ==
    /\ pc[s] = "returned"
    /\ IF run[s].sql_query = ""
       THEN /\ Answer(s)
            /\ obs' = [obs EXCEPT ![s] = Answered(obs[s])]
       ELSE LET r == execute_query_df(run[s].snowflake_db, run[s].sql_query, ok)
                o == [obs[s] EXCEPT
                        !.steps = Append(@, "execute"),
                        !.executed = Some([query |-> r.sent[1].arg,
                                           verdict |-> run[s].verdict])]
            IN  /\ obs' = [obs EXCEPT ![s] = o]
                /\ IF r.value[1].t = "DataFrame"
                   THEN /\ pc' = [pc EXCEPT ![s] = "chart"]
                        /\ UNCHANGED <<ss, run, call>>
                   ELSE /\ EndRun(s)
                        /\ UNCHANGED ss
    /\ UNCHANGED <<routing_db, query_db, harness>>

\* 339-362: run_chart_generator_agents(user_input, df_info_str), the chart
\* is drawn, the answer kept and the request state deleted
ChartAgent(s) ==
    /\ pc[s] = "chart"
    /\ Answer(s)
    /\ obs' = [obs EXCEPT ![s] =
                 Answered([obs[s] EXCEPT !.steps = Append(@, "chart")])]
    /\ UNCHANGED <<routing_db, query_db, harness>>

\* 369: run_sql_dashboard_agents(user_request, selected_db, selected_schema)
\* is a call with three arguments of a function that takes two
\* (sql_dashboard_agents.py 184): TypeError, the run ends
DashboardAgent(s) ==
    /\ pc[s] = "dashboard"
    /\ EndRun(s)
    /\ UNCHANGED <<routing_db, query_db, ss, obs, harness>>

\* 427-428 and st_utils.clear_chat_history: the button deletes messages
ClearChatHistory(s) ==
    /\ pc[s] = "idle"
    /\ ss[s].messages # Absent
    /\ ss[s].messages # Present(<<>>)
    /\ ss' = [ss EXCEPT ![s].messages = Absent]
    /\ UNCHANGED <<routing_db, query_db, pc, run, call, obs, harness>>

Handoffs == {"user", "sql_query_agent", "dashboard_agent"}

\* the steps of run_routing_agent and run_sql_query_agents other than the
\* tool calls an agent may or may not make
AgentsStep(s) ==
    \/ RoutingSetContext(s)
    \/ \E ok \in BOOLEAN : RoutingConnect(s, ok)
    \/ \E h \in Handoffs : RoutingResult(s, h)
    \/ RoutingReturn(s)
    \/ SqlSetContext(s)
    \/ \E ok \in BOOLEAN : SqlConnect(s, ok)
    \/ \E c \in BOOLEAN : SmeResult(s, c)
    \/ \E e, v \in BOOLEAN : BuilderResult(s, e, v)
    \/ \E v \in BOOLEAN : ValidatorResult(s, v)
    \/ SqlReturn(s)

\* one browser session: the module-level handlers serve one request at a time
Next ==
    \/ \E sel \in Selections, force, inp, ok \in BOOLEAN :
          RunScript(1, sel, force, inp, ok)
    \/ NoUserInput(1)
    \/ HandleUserInput(1)
    \/ RoutingSetContext(1)
    \/ \E ok \in BOOLEAN : RoutingConnect(1, ok)
    \/ \E ok \in BOOLEAN : RoutingToolCall(1, ok)
    \/ \E h \in Handoffs : RoutingResult(1, h)
    \/ RoutingReturn(1)
    \/ SqlSetContext(1)
    \/ \E ok \in BOOLEAN : SqlConnect(1, ok)
    \/ \E ok \in BOOLEAN : SqlToolCall(1, ok)
    \/ \E c \in BOOLEAN : SmeResult(1, c)
    \/ \E e, v \in BOOLEAN : BuilderResult(1, e, v)
    \/ \E v \in BOOLEAN : ValidatorResult(1, v)
    \/ SqlReturn(1)
    \/ \E ok \in BOOLEAN : ExecuteQuery(1, ok)
    \/ ChartAgent(1)
    \/ DashboardAgent(1)
    \/ ClearChatHistory(1)

Spec == Init /\ [][Next]_vars

\* every agent call, connect() and close_connection() returns
FairSpec == Spec /\ WF_vars(AgentsStep(1))

\* chat inputs typed per session in ServerSpec
MaxServerInputs == 1

\* the selection session s keeps in ServerSpec
HomeSelection(s) == IF s = 1 THEN <<"DB1", "S1">> ELSE <<"DB2", "S1">>

\* two browser sessions of one server process: Streamlit runs the script of
\* each in a thread of its own, and both import the same routing_agent and
\* sql_query_agents modules.  Each session keeps its selection and leaves
\* the validator toggle off, the warehouse answers every statement, the
\* builder writes a query and the validator accepts the query it is shown.
ServerNext ==
    \E s \in Sessions :
        \/ \E inp \in BOOLEAN :
              /\ inp => obs[s].typed < MaxServerInputs
              /\ RunScript(s, HomeSelection(s), FALSE, inp, TRUE)
        \/ NoUserInput(s)
        \/ HandleUserInput(s)
        \/ RoutingSetContext(s)
        \/ RoutingConnect(s, TRUE)
        \/ RoutingToolCall(s, TRUE)
        \/ \E h \in Handoffs : RoutingResult(s, h)
        \/ RoutingReturn(s)
        \/ SqlSetContext(s)
        \/ SqlConnect(s, TRUE)
        \/ SqlToolCall(s, TRUE)
        \/ \E c \in BOOLEAN : SmeResult(s, c)
        \/ \E v \in BOOLEAN : BuilderResult(s, FALSE, v)
        \/ ValidatorResult(s, TRUE)
        \/ SqlReturn(s)
        \/ ExecuteQuery(s, TRUE)
        \/ ChartAgent(s)
        \/ DashboardAgent(s)
        \/ ClearChatHistory(s)

ServerSpec == Init /\ [][ServerNext]_vars

\* ------------------------------------------------------------ claims
Range(f) == {f[i] : i \in DOMAIN f}

\* C1 as stated: in one call of run_sql_query_agents the SQL builder agent is
\* run at most 3 times.
C1_BuilderRunsAtMostThree ==
    \A s \in Sessions : obs[s].builder_runs <= 3

\* C1 amended: in one call of run_sql_query_agents the SQL builder agent is
\* run at most 1 + max_retries = 4 times: once, and once more in each of the
\* at most 3 rework iterations.
C1_BuilderRunsAtMostOnePlusRetries ==
    \A s \in Sessions : obs[s].builder_runs <= 1 + max_retries

C1_FourthBuilderRunReturned ==
    /\ pc[1] = "returned"
    /\ obs[1].builder_runs = 4
    /\ call[1].retry_count = 3

\* C2: every non-empty sql_query that run_sql_query_agents returned and
\* app.py executed with execute_query_df was judged valid by the last
\* verdict given on it.
C2_ExecutedQueryWasJudgedValid ==
    \A s \in Sessions :
        obs[s].executed # None => obs[s].executed[1].verdict

\* C3: once its agents run, run_sql_query_agents returns; the rework loop
\* is left as soon as the validator reports sql_valid true or after 3
\* iterations; retry_count grows by exactly one per iteration and never
\* exceeds 3.
C3_ReworkLoopTerminates ==
    /\ (pc[1] \in {"sme", "builder"}) ~> (pc[1] = "returned")
    /\ [](call[1].retry_count <= 3)
    /\ [][(pc[1] = "rework_validator" /\ pc'[1] # "rework_validator")
            => (call'[1].retry_count = call[1].retry_count + 1)]_vars
    /\ [][(/\ pc[1] \in {"validator", "rework_validator"}
           /\ pc'[1] # pc[1]
           /\ \/ call'[1].sql_validation[1].sql_valid
              \/ call'[1].retry_count = 3)
            => (pc'[1] = "sq_close")]_vars
    /\ [][(/\ pc[1] \in {"validator", "rework_validator"}
           /\ pc'[1] = "rework_builder")
            => (/\ ~call'[1].sql_validation[1].sql_valid
                /\ call'[1].retry_count < 3)]_vars

C3_ThirdReworkReturned ==
    /\ pc[1] = "returned"
    /\ call[1].retry_count = 3
    /\ call[1].sql_validation = Some([sql_valid |-> FALSE])

Rank(step) ==
    CASE step = "routing" -> 1
      [] step = "sme" -> 2
      [] step \in {"builder", "validator"} -> 3
      [] step = "return" -> 4
      [] step = "execute" -> 5
      [] OTHER -> 6

\* C4: the steps of a chat request answered through the SQL path occur in
\* the order routing agent, SME agent, SQL builder, validator (if run),
\* execution of the returned query, chart generation; the warehouse never
\* executes the query before run_sql_query_agents has returned and the
\* chart agent never runs before the query has been executed.
C4_StepsInOrder ==
    \A s \in Sessions :
        LET st == obs[s].steps
        IN  /\ \A i, j \in DOMAIN st : i < j => Rank(st[i]) <= Rank(st[j])
            /\ \A j \in DOMAIN st :
                  /\ st[j] = "validator" => j > 1 /\ st[j - 1] = "builder"
                  /\ st[j] = "execute" =>
                        \E i \in 1..(j - 1) : st[i] = "return"
                  /\ st[j] = "chart" =>
                        \E i \in 1..(j - 1) : st[i] = "execute"
            /\ obs[s].answered =>
                  /\ Len(st) >= 3
                  /\ st[1] = "routing"
                  /\ st[2] = "sme"

\* C5: no tool call of a running agent finds the module-level handler's
\* connection closed, opened by another request, or the handler pointed at
\* another request's database or schema.
C5_ToolCallFindsOwnConnection ==
    \A s \in Sessions :
        obs[s].tool.called =>
            /\ obs[s].tool.raised = ""
            /\ ~obs[s].tool.foreign
            /\ ~obs[s].tool.repointed

\* C6: once a request has been answered, router_counter, routing and
\* user_input_history are deleted and handoff is 'user', and the input of
\* every later agent call is built only from user inputs typed after that
\* answer.
C6_NoMemoryAcrossRequests ==
    \A s \in Sessions :
        /\ obs[s].answered =>
              /\ ss[s].router_counter = Absent
              /\ ss[s].routing = Absent
              /\ ss[s].user_input_history = Absent
              /\ ss[s].handoff = Present("user")
        /\ Taint(obs[s].agent_input) \subseteq
              (obs[s].answered_upto + 1)..obs[s].typed

C6_AgentCalledAfterAnAnswer ==
    /\ obs[1].answered_upto >= 1
    /\ obs[1].agent_input # <<>>
    /\ pc[1] = "sme"

\* C7: when the selected database or schema differs from the tracked one at
\* the start of a run, then at the point where user input is handled
\* messages = [], router_counter = 0, handoff = 'user', routing = None,
\* user_input_history = [] and current_db / current_schema are the selection.
C7_ContextChangeResetsSession ==
    \A s \in Sessions :
        (pc[s] = "at_input" /\ obs[s].ctx_changed) =>
            /\ ss[s].messages = Present(<<>>)
            /\ ss[s].router_counter = Present(0)
            /\ ss[s].handoff = Present("user")
            /\ ss[s].routing = Present(NoRouting)
            /\ ss[s].user_input_history = Present(<<>>)
            /\ ss[s].current_db = Present(run[s].selected_db)
            /\ ss[s].current_schema = Present(run[s].selected_schema)

C7_ResetAfterAnsweredRequest ==
    /\ pc[1] = "at_input"
    /\ obs[1].ctx_changed
    /\ obs[1].answered_upto >= 1
    /\ run[1].has_input

\* C8: in a call that reached the SQL builder, with force_validator_agent
\* the validator is run at least once; without it the validator is run if
\* and only if the builder reported validation_result false.
C8_ValidatorRunWhenForcedOrInvalid ==
    \A s \in Sessions :
        (/\ obs[s].builder_runs >= 1
         /\ pc[s] \in {"validator", "rework_builder", "rework_validator",
                       "sq_close", "returned", "chart"}) =>
            IF run[s].force_validator_agent
            THEN obs[s].validator_runs >= 1
            ELSE obs[s].validator_runs >= 1 <=>
                    ~obs[s].first_validation_result

C8_ForcedValidationOfValidQuery ==
    /\ pc[1] = "returned"
    /\ run[1].force_validator_agent
    /\ obs[1].first_validation_result
    /\ obs[1].validator_runs = 1

\* C9: every query method raises 'Connection not established' without
\* opening a cursor whenever connection is None, which is the case before
\* the first connect() and after every close_connection().
C9_QueryMethodsNeedAConnection ==
    /\ (last.op \in QueryMethods \cup ListMethods
            /\ last.before.connection = None) =>
          /\ last.raised = NotEstablished
          /\ last.cursors = 0
          /\ last.sent = <<>>
    /\ last.op = "close_connection" => handler.connection = None
    /\ (last.op \notin {"connect", "close_connection"}
            /\ prev \in {"none", "close_connection"}) =>
          last.before.connection = None

C9_QueryAfterClose ==
    /\ prev = "close_connection"
    /\ last.op = "validate_query"
    /\ last.raised = NotEstablished

\* C10: close_connection with connection None changes nothing and raises
\* nothing; with an open connection it closes it exactly once and sets
\* connection to None; a second call in a row leaves the state of the first.
C10_CloseConnectionIdempotent ==
    last.op = "close_connection" =>
        /\ last.raised = ""
        /\ last.before.connection = None =>
              last.after = last.before /\ last.closed = None
        /\ last.before.connection # None =>
              /\ last.after = [last.before EXCEPT !.connection = None]
              /\ last.closed =
                    Some([last.before.connection[1] EXCEPT !.closes = 1])
        /\ prev = "close_connection" => last.after = last.before

C10_ClosedTwiceInARow ==
    /\ prev = "close_connection"
    /\ last.op = "close_connection"

\* C11: execute_query_df on an established connection never raises: when
\* executing or fetching fails it returns an error string, not a DataFrame,
\* its cursor is closed and the handler's connection stays open and
\* unchanged; it raises only when there is no connection.
C11_FailingQueryReturnsErrorString ==
    last.op = "execute_query_df" =>
        /\ last.raised # "" <=> last.before.connection = None
        /\ last.before.connection # None =>
              /\ last.after = last.before
              /\ handler.connection = last.before.connection
              /\ handler.connection[1].closes = 0
              /\ last.cursors = 1 /\ last.cursors_closed = 1
              /\ last.oks[1] => last.value = <<Part("DataFrame", 0)>>
              /\ ~last.oks[1] =>
                    last.value = <<Part("Query execution failed", 0)>>

C11_QueryFailedOnOpenConnection ==
    /\ last.op = "execute_query_df"
    /\ last.before.connection # None
    /\ last.oks = <<FALSE>>
    /\ last.raised = ""

\* C12: validate_query(q) never sends q itself to the warehouse; when it
\* reaches the warehouse it sends exactly 'EXPLAIN q', and it returns
\* 'Query is valid.' exactly when that EXPLAIN succeeds and otherwise
\* returns, without raising, an 'invalid' message.
C12_ValidateQueryOnlyExplains ==
    last.op = "validate_query" =>
        /\ \A i \in DOMAIN last.sent : last.sent[i] # Stmt("RUN", last.arg)
        /\ last.before.connection # None =>
              /\ last.sent = <<Stmt("EXPLAIN", last.arg)>>
              /\ last.raised = ""
              /\ last.value = <<Part("Query is valid.", 0)>> <=> last.oks[1]
              /\ ~last.oks[1] => last.value = <<Part("Query is invalid", 0)>>
              /\ last.after = last.before

C12_ExplainRejected ==
    /\ last.op = "validate_query"
    /\ last.before.connection # None
    /\ last.oks = <<FALSE>>
    /\ last.sent = <<Stmt("EXPLAIN", last.arg)>>

\* C13: connect() raises exactly when the connection attempt fails and then
\* leaves the handler, its connection included, as it was before the call;
\* on success connection is the new connection to the handler's database
\* and schema.
C13_FailedConnectKeepsConnection ==
    last.op = "connect" =>
        /\ last.raised # "" <=> ~last.oks[1]
        /\ ~last.oks[1] => last.after = last.before /\ handler = last.before
        /\ last.oks[1] =>
              /\ last.after.connection =
                    Some(NewConnection("main", last.before.database,
                                       last.before.schema))
              /\ handler = last.after

C13_FailedWithStoredConnection ==
    /\ last.op = "connect"
    /\ last.raised # ""
    /\ last.before.connection # None

\* C14: on an established connection
\* get_distinct_values_from_table_list_dict returns, for n query specs, an
\* output with exactly one numbered header per spec, in input order, each
\* followed by its result or, when its query failed, by a failure note; all
\* n queries are sent in input order whichever of them fail.
C14_OneHeaderPerQuerySpec ==
    (last.op = "get_distinct_values_from_table_list_dict"
        /\ last.before.connection # None) =>
        LET n == Len(last.oks)
            headers == SelectSeq(last.value, LAMBDA p : p.t = "## header")
        IN  /\ last.raised = ""
            /\ headers = [i \in 1..n |-> Part("## header", i)]
            /\ Len(last.value) = 1 + 2 * n
            /\ \A i \in 1..n :
                  /\ last.value[2 * i] = Part("## header", i)
                  /\ last.value[2 * i + 1] =
                        Part(IF last.oks[i] THEN "result" ELSE "Query failed", i)
            /\ last.sent = [i \in 1..n |->
                  Stmt("SELECT DISTINCT", <<"T1", "T2", "T3", "T4">>[i])]
            /\ last.cursors = n /\ last.cursors_closed = n

C14_QueryAfterAFailedOne ==
    /\ last.op = "get_distinct_values_from_table_list_dict"
    /\ last.before.connection # None
    /\ Len(last.oks) >= 2
    /\ ~last.oks[1]
    /\ Len(last.sent) = Len(last.oks)

=============================================================================
